---- MODULE Spec2Model ----
(***************************************************************************)
(* A model of seatmap-browser.py: the meeting seating-chart generator.     *)
(*                                                                         *)
(* Conventions.  Python lists are TLA+ sequences, so the Python index k is *)
(* the TLA+ index k+1.  Python strings are TLA+ strings; the Chinese       *)
(* characters of the program are written by their pinyin, one ASCII token  *)
(* per character (e.g. the row label "di"+"er"+"shi"+"yi"+"pai" is row 21).*)
(* A raised exception is the exception's name as a value: KeyError for a   *)
(* failed dictionary lookup, ZeroDivisionError for a division by zero.     *)
(***************************************************************************)
EXTENDS Integers, Sequences, FiniteSets, TLC

VARIABLES
    pc,               \* position of the control flow
    uploaded_file,    \* the uploaded workbook (st.file_uploader)
    seats_per_row,    \* the row capacity (st.number_input / the argument)
    df_sorted,        \* generate_seating_chart: the sorted attendee rows
    num_rows,         \* generate_seating_chart: math.ceil(N / W)
    seating_pattern,  \* generate_seating_chart: compute_seating_pattern(W)
    col_labels,       \* generate_seating_chart: generate_column_labels(W)
    row,              \* generate_seating_chart: index of the outer loop
    seating_chart,    \* generate_seating_chart: the rows, in logical order
    assignments,      \* generate_seating_chart: the placement records
    seating_df,       \* the returned DataFrame: columns and rows
    explanation_text, \* the returned explanation text
    excel_data,       \* write_to_excel's returned buffer
    exc,              \* the exception in flight or caught ("" when none)
    ui,               \* the Streamlit elements emitted by the current run
    loop,             \* compute_seating_pattern: pattern, left, right, toggle
    num,              \* num_to_chinese: the argument
    numeral           \* num_to_chinese: the result

vars == <<pc, uploaded_file, seats_per_row, df_sorted, num_rows,
          seating_pattern, col_labels, row, seating_chart, assignments,
          seating_df, explanation_text, excel_data, exc, ui, loop, num,
          numeral>>

(***************************************************************************)
(* Bounds of the model.                                                    *)
(***************************************************************************)
\* Attendee tables have at most MaxN rows ...
MaxN == 3
\* ... with distinct identifiers drawn from 1..MaxId.
MaxId == 3
\* Row capacities of a call range over -NegCap..MaxCap.
MaxCap == 6
NegCap == 2
\* One long attendee list, so that row numbers pass 100.
LongN == 110
\* compute_seating_pattern and generate_column_labels are run for 1..MaxW.
MaxW == 100
\* num_to_chinese is run for -NegNum..MaxNum.
MaxNum == 120
NegNum == 11

KeyError == "KeyError"
ZeroDivisionError == "ZeroDivisionError"
\* What pd.read_excel raises on a file it cannot read.
ReadError == "ReadError"
\* What pandas or xlsxwriter raises when the workbook cannot be written.
WriteError == "WriteError"
\* The value pandas gives an empty cell.
NaN == "NaN"

(***************************************************************************)
(* num_to_chinese                                                          *)
(***************************************************************************)
mapping ==
    [n \in 1..10 |->
        CASE n = 1 -> "yi" [] n = 2 -> "er" [] n = 3 -> "san" [] n = 4 -> "si"
          [] n = 5 -> "wu" [] n = 6 -> "liu" [] n = 7 -> "qi" [] n = 8 -> "ba"
          [] n = 9 -> "jiu" [] n = 10 -> "shi"]

\* Faulty variant: a formatter that knows 1..10 only.
num_to_chinese_upto10(n) ==
    IF n \in DOMAIN mapping THEN mapping[n] ELSE KeyError

\* The label of n, or KeyError when a lookup in mapping fails.
\* n // 10 and n % 10 are Python's floor division and modulus.
num_to_chinese(n) ==
    IF n \in DOMAIN mapping
    THEN mapping[n]
    ELSE LET tens == n \div 10
             ones == n % 10
         IN  IF tens > 1 /\ tens \notin DOMAIN mapping
             THEN KeyError
             ELSE LET tens_part == IF tens > 1 THEN mapping[tens] \o "shi"
                                               ELSE "shi"
                      ones_part == IF ones # 0 THEN mapping[ones] ELSE ""
                  IN  tens_part \o ones_part

(***************************************************************************)
(* compute_seating_pattern                                                 *)
(***************************************************************************)
\* Faulty variant: the odd case forgets to seat the centre first.
PatternEntryNoCentre(W) ==
    IF W % 2 = 0
    THEN [pattern |-> <<>>, left |-> (W \div 2) - 1, right |-> W \div 2,
          toggle |-> TRUE]
    ELSE [pattern |-> <<>>, left |-> (W \div 2) - 1, right |-> (W \div 2) + 1,
          toggle |-> TRUE]

\* Lines 37-42 and 52-56: the locals on entry to the while loop.
PatternEntry(W) ==
    IF W % 2 = 0
    THEN LET best_index == (W \div 2) - 1
         IN  [pattern |-> <<>>, left |-> best_index, right |-> best_index + 1,
              toggle |-> TRUE]
    ELSE LET best_index == W \div 2
         IN  [pattern |-> <<best_index>>, left |-> best_index - 1,
              right |-> best_index + 1, toggle |-> TRUE]

\* The loop condition of lines 43 and 57.
PatternCond(s, W) == s.left >= 0 \/ s.right < W

\* One iteration of the loop, lines 44-50 and 58-64.
PatternBody(s, W) ==
    IF s.toggle /\ s.left >= 0
    THEN [s EXCEPT !.pattern = Append(@, s.left), !.left = @ - 1,
                   !.toggle = ~@]
    ELSE IF ~s.toggle /\ s.right < W
    THEN [s EXCEPT !.pattern = Append(@, s.right), !.right = @ + 1,
                   !.toggle = ~@]
    ELSE [s EXCEPT !.toggle = ~@]

RECURSIVE PatternLoop(_, _)
PatternLoop(s, W) ==
    IF PatternCond(s, W) THEN PatternLoop(PatternBody(s, W), W) ELSE s

compute_seating_pattern(W) == PatternLoop(PatternEntry(W), W).pattern

(***************************************************************************)
(* generate_column_labels                                                  *)
(***************************************************************************)
\* f"{n:02d}": the decimal numeral of n, zero-padded to a width of at least 2.
Format02d(n) ==
    LET s == ToString(n) IN IF Len(s) < 2 THEN "0" \o s ELSE s

\* Faulty variant: the left half counts up instead of down.
LeftNumAscending(left_count, i) == 2 * i + 1

\* Line 81.
LeftNum(left_count, i) == 2 * left_count - (2 * i + 1)

\* Faulty variant: the even numbers start at 0.
RightNumFromZero(i) == 2 * i

\* Line 85.
RightNum(i) == 2 * (i + 1)

\* Faulty variant: the numeral without its padding.
ColumnLabelUnpadded(n) == ToString(n)

\* Lines 82 and 86.
ColumnLabel(n) == Format02d(n)

generate_column_labels(W) ==
    LET left_count  == IF W % 2 = 0 THEN W \div 2 ELSE (W \div 2) + 1
        right_count == W \div 2
        \* labels[k] is appended in the iteration i = k - 1 of its loop
        left  == [k \in 1..left_count |->
                     ColumnLabel(LeftNum(left_count, k - 1))]
        right == [k \in 1..right_count |-> ColumnLabel(RightNum(k - 1))]
    IN  left \o right

(***************************************************************************)
(* The uploaded workbook and pandas                                        *)
(***************************************************************************)
\* The name in the row of attendee id, when the cell is filled in.
NameOf(id) == "P" \o ToString(id)

\* The sequences of at most n distinct elements of S.
InjSeqs(S, n) ==
    {s \in UNION {[1..k -> S] : k \in 0..n} :
        \A i, j \in DOMAIN s : i # j => s[i] # s[j]}

\* Sheets with both columns: the identifiers are distinct and in any order,
\* a NAME cell is the attendee's name or empty (pandas reads NaN).
Sheets ==
    UNION {{[k \in DOMAIN ids |->
                [PERSONID |-> ids[k],
                 NAME |-> IF named[k] THEN NameOf(ids[k]) ELSE NaN]] :
            named \in [DOMAIN ids -> BOOLEAN]} :
           ids \in InjSeqs(1..MaxId, MaxN)}

\* A long sheet, in descending order of identifier.
LongSheet ==
    [k \in 1..LongN |->
        [PERSONID |-> LongN + 1 - k, NAME |-> NameOf(LongN + 1 - k)]]

\* Sheets without a NAME column.
NamelessSheets == {<<>>, <<[PERSONID |-> 2], [PERSONID |-> 1]>>}

NoFile ==
    [present |-> FALSE, readable |-> FALSE, columns |-> {}, rows |-> <<>>]

Files ==
    {[present |-> TRUE, readable |-> TRUE, columns |-> {"PERSONID", "NAME"},
      rows |-> r] : r \in Sheets \cup {LongSheet}}
    \cup {[present |-> TRUE, readable |-> TRUE, columns |-> {"PERSONID"},
           rows |-> r] : r \in NamelessSheets}
    \cup {[present |-> TRUE, readable |-> TRUE, columns |-> {"NAME"},
           rows |-> <<>>],
          [present |-> TRUE, readable |-> FALSE, columns |-> {},
           rows |-> <<>>]}

\* A stable sort by PERSONID: the row at index i goes to the position that
\* counts the rows with a smaller key and the equal ones before it.
SortByPersonId(s) ==
    LET rank == [i \in DOMAIN s |->
                    1 + Cardinality({j \in DOMAIN s :
                            \/ s[j].PERSONID < s[i].PERSONID
                            \/ s[j].PERSONID = s[i].PERSONID /\ j < i})]
    IN  [k \in DOMAIN s |-> s[CHOOSE i \in DOMAIN s : rank[i] = k]]

Reverse(s) == [k \in 1..Len(s) |-> s[Len(s) + 1 - k]]

\* Faulty variant: the rows are taken in the order of the sheet.
SortValuesSkipped(rows) == rows

\* Line 98: df.sort_values(by='PERSONID', ascending=True).
SortValues(rows) == SortByPersonId(rows)

\* Faulty variant: sorted with reverse=True.
SortAssignmentsDescending(s) == Reverse(SortByPersonId(s))

\* Line 142: assignments.sort(key=lambda x: x["PERSONID"]).
SortAssignments(s) == SortByPersonId(s)

\* Faulty variant: floor division.
CeilDivFloor(n, w) == IF w > 0 THEN n \div w ELSE -(n \div (-w))

\* Line 101: math.ceil(n / w) for w # 0.
CeilDiv(n, w) ==
    IF w > 0 THEN (n + w - 1) \div w ELSE -(n \div (-w))

Min(a, b) == IF a <= b THEN a ELSE b

(***************************************************************************)
(* generate_seating_chart                                                  *)
(***************************************************************************)
\* Lines 120 and 132: f"di{num_to_chinese(n)}pai".
RowLabel(n) ==
    LET c == num_to_chinese(n)
    IN  IF c = KeyError THEN KeyError ELSE "di" \o c \o "pai"

\* Faulty variant: the seats of a row fill from the left.
SeatIndexLeftToRight(pattern, i) == i

\* Line 117: seating_pattern[i].
SeatIndex(pattern, i) == pattern[i + 1]

\* Lines 115-127: the inner loop from attendee i of the row on.  acc holds
\* row_seats, the assignments so far and the exception raised, if any.
RECURSIVE RowLoop(_, _, _, _, _, _)
RowLoop(persons, i, acc, pattern, labels, r) ==
    IF i >= Len(persons) \/ acc.exc # "" THEN acc
    ELSE IF i < Len(pattern)
    THEN LET person == persons[i + 1]
             seat_index == SeatIndex(pattern, i)
             row_label == RowLabel(r + 1)
         IN  IF "NAME" \notin DOMAIN person \/ row_label = KeyError
             THEN [acc EXCEPT !.exc = KeyError]
             ELSE RowLoop(persons, i + 1,
                     [acc EXCEPT
                        !.row_seats[seat_index + 1] = person.NAME,
                        !.assignments = Append(@,
                            [PERSONID |-> person.PERSONID,
                             NAME |-> person.NAME,
                             ROW |-> row_label,
                             SEAT |-> labels[seat_index + 1]])],
                     pattern, labels, r)
    ELSE RowLoop(persons, i + 1, acc, pattern, labels, r)

\* Line 146: the test for an empty name.
IsBlankName(v) == v = NaN \/ v \in {"", " ", "nan", "NaN"}

\* Lines 145-148.
ExplanationLine(item) ==
    (IF IsBlankName(item.NAME) THEN "yuliukongwei" ELSE item.NAME)
    \o " zai" \o item.ROW \o "di" \o item.SEAT \o "zuowei."

\* Line 149: "\n".join(lines), joined half by half.
RECURSIVE Join(_)
Join(lines) ==
    IF Len(lines) = 0 THEN ""
    ELSE IF Len(lines) = 1 THEN lines[1]
    ELSE LET half == Len(lines) \div 2
         IN  Join(SubSeq(lines, 1, half)) \o "\n"
                 \o Join(SubSeq(lines, half + 1, Len(lines)))

\* The values of the locals before a call.
NoLoop == [pattern |-> <<>>, left |-> 0, right |-> 0, toggle |-> TRUE]
NoFrame == [columns |-> <<>>, rows |-> <<>>]

\* Lines 97-98: read the workbook and sort it.
GenRead ==
    /\ pc = "gen_read"
    /\ IF ~uploaded_file.readable
       THEN /\ exc' = ReadError
            /\ pc' = "gen_raised"
            /\ UNCHANGED df_sorted
       ELSE IF "PERSONID" \notin uploaded_file.columns
       THEN /\ exc' = KeyError
            /\ pc' = "gen_raised"
            /\ UNCHANGED df_sorted
       ELSE /\ df_sorted' = SortValues(uploaded_file.rows)
            /\ pc' = "gen_setup"
            /\ UNCHANGED exc
    /\ UNCHANGED <<uploaded_file, seats_per_row, num_rows, seating_pattern,
                   col_labels, row, seating_chart, assignments, seating_df,
                   explanation_text, excel_data, ui, loop, num, numeral>>

\* Lines 100-107: the row count, the fill pattern and the column labels.
GenSetup ==
    /\ pc = "gen_setup"
    /\ IF seats_per_row = 0
       THEN /\ exc' = ZeroDivisionError
            /\ pc' = "gen_raised"
            /\ UNCHANGED <<num_rows, seating_pattern, col_labels>>
       ELSE /\ num_rows' = CeilDiv(Len(df_sorted), seats_per_row)
            /\ seating_pattern' = compute_seating_pattern(seats_per_row)
            /\ col_labels' = generate_column_labels(seats_per_row)
            /\ pc' = "gen_loop"
            /\ UNCHANGED exc
    /\ seating_chart' = <<>>
    /\ assignments' = <<>>
    /\ row' = 0
    /\ UNCHANGED <<uploaded_file, seats_per_row, df_sorted, seating_df,
                   explanation_text, excel_data, ui, loop, num, numeral>>

\* Lines 110-128: one iteration of the loop over the rows.
GenRow ==
    /\ pc = "gen_loop"
    /\ row < num_rows
    /\ LET total_people == Len(df_sorted)
           start_idx == row * seats_per_row
           end_idx == Min(start_idx + seats_per_row, total_people)
           persons == SubSeq(df_sorted, start_idx + 1, end_idx)
           done == RowLoop(persons, 0,
                      [row_seats |-> [k \in 1..seats_per_row |-> ""],
                       assignments |-> assignments, exc |-> ""],
                      seating_pattern, col_labels, row)
       IN  IF done.exc # ""
           THEN /\ exc' = done.exc
                /\ pc' = "gen_raised"
                /\ UNCHANGED <<row, seating_chart, assignments>>
           ELSE /\ seating_chart' = Append(seating_chart, done.row_seats)
                /\ assignments' = done.assignments
                /\ row' = row + 1
                /\ UNCHANGED <<pc, exc>>
    /\ UNCHANGED <<uploaded_file, seats_per_row, df_sorted, num_rows,
                   seating_pattern, col_labels, seating_df, explanation_text,
                   excel_data, ui, loop, num, numeral>>

\* Faulty variant: the rows are labelled without the reversal of line 133.
FinalRowLabelsNotReversed(n) == [i \in 1..n |-> RowLabel(i)]

\* Lines 132-133: the row labels, top displayed row first.
FinalRowLabels(n) == Reverse([i \in 1..n |-> RowLabel(i)])

\* Lines 131-139: the displayed table, last logical row first.
GenTable ==
    /\ pc = "gen_loop"
    /\ row >= num_rows
    /\ LET seating_chart_final == Reverse(seating_chart)
           row_labels_final == FinalRowLabels(num_rows)
           zipped == Min(Len(row_labels_final), Len(seating_chart_final))
           final_table == [j \in 1..zipped |->
                              <<row_labels_final[j]>> \o seating_chart_final[j]]
       IN  IF \E j \in DOMAIN row_labels_final : row_labels_final[j] = KeyError
           THEN /\ exc' = KeyError
                /\ pc' = "gen_raised"
                /\ UNCHANGED seating_df
           ELSE /\ seating_df' = [columns |-> <<"paihao">> \o col_labels,
                                  rows |-> final_table]
                /\ pc' = "gen_explain"
                /\ UNCHANGED exc
    /\ UNCHANGED <<uploaded_file, seats_per_row, df_sorted, num_rows,
                   seating_pattern, col_labels, row, seating_chart,
                   assignments, explanation_text, excel_data, ui, loop, num,
                   numeral>>

\* Lines 141-151: the explanation text, and the return.
GenExplain ==
    /\ pc = "gen_explain"
    /\ assignments' = SortAssignments(assignments)
    /\ explanation_text' =
          Join([k \in DOMAIN assignments |->
                   ExplanationLine(SortAssignments(assignments)[k])])
    /\ pc' = "gen_returned"
    /\ UNCHANGED <<uploaded_file, seats_per_row, df_sorted, num_rows,
                   seating_pattern, col_labels, row, seating_chart,
                   seating_df, excel_data, exc, ui, loop, num, numeral>>

Generate == GenRead \/ GenSetup \/ GenRow \/ GenTable \/ GenExplain

(***************************************************************************)
(* The Streamlit page, lines 199-224                                       *)
(***************************************************************************)
\* st.number_input(min_value=1, max_value=30), line 205.
min_value == 1
max_value == 30

\* Lines 207-208: the button is pressed with a file uploaded.
PressButton ==
    /\ pc = "idle"
    /\ uploaded_file.present
    /\ pc' = "gen_read"
    /\ UNCHANGED <<uploaded_file, seats_per_row, df_sorted, num_rows,
                   seating_pattern, col_labels, row, seating_chart,
                   assignments, seating_df, explanation_text, excel_data,
                   exc, ui, loop, num, numeral>>

\* Line 211: write_to_excel returns the workbook, or xlsxwriter raises.
WriteToExcel ==
    /\ pc = "gen_returned"
    /\ \/ /\ excel_data' = "seatingmap.xlsx"
          /\ pc' = "write_returned"
          /\ UNCHANGED exc
       \/ /\ exc' = WriteError
          /\ pc' = "write_raised"
          /\ UNCHANGED excel_data
    /\ UNCHANGED <<uploaded_file, seats_per_row, df_sorted, num_rows,
                   seating_pattern, col_labels, row, seating_chart,
                   assignments, seating_df, explanation_text, ui, loop, num,
                   numeral>>

\* Lines 213-222: the success message, the download and the explanation.
ShowResult ==
    /\ pc = "write_returned"
    /\ ui' = ui \o <<[kind |-> "success", body |-> "shengchengchenggong"],
                     [kind |-> "download_button", body |-> excel_data],
                     [kind |-> "write", body |-> "zuoweishuoming"],
                     [kind |-> "text", body |-> explanation_text]>>
    /\ pc' = "shown"
    /\ UNCHANGED <<uploaded_file, seats_per_row, df_sorted, num_rows,
                   seating_pattern, col_labels, row, seating_chart,
                   assignments, seating_df, explanation_text, excel_data,
                   exc, loop, num, numeral>>

\* Faulty variant: the handler also prints what was computed so far.
ErrorElementsWithText(e, text) ==
    <<[kind |-> "error", body |-> e], [kind |-> "text", body |-> text]>>

\* Line 224: st.error.
ErrorElements(e, text) == <<[kind |-> "error", body |-> e]>>

\* Lines 223-224: the except clause.
ShowError ==
    /\ pc \in {"gen_raised", "write_raised"}
    /\ ui' = ui \o ErrorElements(exc, explanation_text)
    /\ pc' = "failed"
    /\ UNCHANGED <<uploaded_file, seats_per_row, df_sorted, num_rows,
                   seating_pattern, col_labels, row, seating_chart,
                   assignments, seating_df, explanation_text, excel_data,
                   exc, loop, num, numeral>>

\* The locals of generate_seating_chart and of the page before a run.
InitLocals ==
    /\ df_sorted = <<>>
    /\ num_rows = 0
    /\ seating_pattern = <<>>
    /\ col_labels = <<>>
    /\ row = 0
    /\ seating_chart = <<>>
    /\ assignments = <<>>
    /\ seating_df = NoFrame
    /\ explanation_text = ""
    /\ excel_data = ""
    /\ exc = ""
    /\ ui = <<>>

\* The page: a file or none, and a capacity the number input allows.
Init ==
    /\ pc = "idle"
    /\ uploaded_file \in Files \cup {NoFile}
    /\ seats_per_row \in min_value..Min(max_value, MaxCap)
    /\ InitLocals
    /\ loop = NoLoop
    /\ num = 0
    /\ numeral = ""

Next ==
    \/ PressButton
    \/ Generate
    \/ WriteToExcel
    \/ ShowResult
    \/ ShowError

Spec == Init /\ [][Next]_vars

\* generate_seating_chart called on its own, with any capacity.
InitChart ==
    /\ pc = "gen_read"
    /\ uploaded_file \in Files
    /\ seats_per_row \in (-NegCap)..MaxCap
    /\ InitLocals
    /\ loop = NoLoop
    /\ num = 0
    /\ numeral = ""

SpecChart == InitChart /\ [][Generate]_vars

(***************************************************************************)
(* compute_seating_pattern and generate_column_labels, run on their own    *)
(***************************************************************************)
\* Lines 37-42 and 52-56.
PatternEnter ==
    /\ pc = "pattern_entry"
    /\ loop' = PatternEntry(seats_per_row)
    /\ pc' = "pattern_loop"
    /\ UNCHANGED <<uploaded_file, seats_per_row, df_sorted, num_rows,
                   seating_pattern, col_labels, row, seating_chart,
                   assignments, seating_df, explanation_text, excel_data,
                   exc, ui, num, numeral>>

\* One iteration of the while loop.
PatternIter ==
    /\ pc = "pattern_loop"
    /\ PatternCond(loop, seats_per_row)
    /\ loop' = PatternBody(loop, seats_per_row)
    /\ UNCHANGED <<pc, uploaded_file, seats_per_row, df_sorted, num_rows,
                   seating_pattern, col_labels, row, seating_chart,
                   assignments, seating_df, explanation_text, excel_data,
                   exc, ui, num, numeral>>

\* Line 65: the loop has ended and the pattern is returned.
PatternReturn ==
    /\ pc = "pattern_loop"
    /\ ~PatternCond(loop, seats_per_row)
    /\ seating_pattern' = loop.pattern
    /\ pc' = "labels_call"
    /\ UNCHANGED <<uploaded_file, seats_per_row, df_sorted, num_rows,
                   col_labels, row, seating_chart, assignments, seating_df,
                   explanation_text, excel_data, exc, ui, loop, num, numeral>>

\* Lines 67-87.
ColumnLabels ==
    /\ pc = "labels_call"
    /\ col_labels' = generate_column_labels(seats_per_row)
    /\ pc' = "seats_done"
    /\ UNCHANGED <<uploaded_file, seats_per_row, df_sorted, num_rows,
                   seating_pattern, row, seating_chart, assignments,
                   seating_df, explanation_text, excel_data, exc, ui, loop,
                   num, numeral>>

InitSeats ==
    /\ pc = "pattern_entry"
    /\ uploaded_file = NoFile
    /\ seats_per_row \in 1..MaxW
    /\ InitLocals
    /\ loop = NoLoop
    /\ num = 0
    /\ numeral = ""

NextSeats == PatternEnter \/ PatternIter \/ PatternReturn \/ ColumnLabels

\* The interpreter keeps running the function until it returns.
SpecSeats == InitSeats /\ [][NextSeats]_vars /\ WF_vars(NextSeats)

(***************************************************************************)
(* num_to_chinese, run on its own                                          *)
(***************************************************************************)
\* Lines 7-30: the call returns a label or raises KeyError.
NumToChinese ==
    /\ pc = "numeral_call"
    /\ IF num_to_chinese(num) = KeyError
       THEN /\ exc' = KeyError
            /\ pc' = "numeral_raised"
            /\ UNCHANGED numeral
       ELSE /\ numeral' = num_to_chinese(num)
            /\ pc' = "numeral_returned"
            /\ UNCHANGED exc
    /\ UNCHANGED <<uploaded_file, seats_per_row, df_sorted, num_rows,
                   seating_pattern, col_labels, row, seating_chart,
                   assignments, seating_df, explanation_text, excel_data, ui,
                   loop, num>>

InitNumeral ==
    /\ pc = "numeral_call"
    /\ uploaded_file = NoFile
    /\ seats_per_row = 1
    /\ InitLocals
    /\ loop = NoLoop
    /\ num \in (-NegNum)..MaxNum
    /\ numeral = ""

SpecNumeral == InitNumeral /\ [][NumToChinese]_vars

(***************************************************************************)
(* The properties                                                          *)
(***************************************************************************)
\* ceil(n / w) for w >= 1, from its definition: the least r with r * w >= n.
CeilOf(n, w) == CHOOSE r \in 0..n : r * w >= n /\ (r = 0 \/ (r - 1) * w < n)

\* The number a column label is the numeral of.
LabelValue(label) ==
    IF \E v \in 0..(10 * MaxW) : Format02d(v) = label
    THEN CHOOSE v \in 0..(10 * MaxW) : Format02d(v) = label
    ELSE -1

\* generate_seating_chart has returned to a caller that gave it a capacity
\* of at least 1.  C2, C3 and C8 speak of what such a call returns; a call
\* that raises (a sheet without a column, a row number that num_to_chinese
\* cannot label) returns nothing.
ChartReturned ==
    /\ pc = "gen_returned"
    /\ seats_per_row >= 1

\* C1: for every W >= 1 compute_seating_pattern(W) terminates and returns a
\* sequence of length W holding each of 0..W-1 once; W = 1 gives [0] and
\* W = 10 gives [4,5,3,6,2,7,1,8,0,9].
C1_PatternIsPermutation ==
    /\ [](pc \in {"labels_call", "seats_done"} =>
            /\ Len(seating_pattern) = seats_per_row
            /\ {seating_pattern[k] : k \in 1..Len(seating_pattern)}
                  = 0..(seats_per_row - 1)
            /\ seats_per_row = 1 => seating_pattern = <<0>>
            /\ seats_per_row = 10 =>
                  seating_pattern = <<4, 5, 3, 6, 2, 7, 1, 8, 0, 9>>)
    /\ <>(pc = "seats_done")

C1_Witness ==
    /\ pc = "seats_done"
    /\ seats_per_row = 10
    /\ seating_pattern = <<4, 5, 3, 6, 2, 7, 1, 8, 0, 9>>

\* C2: with N sorted attendees, capacity W >= 1 and R = ceil(N/W), the
\* returned grid has R rows of W+1 cells; displayed row j carries the label
\* of logical row R-j and holds at physical position FillPattern[i] the name
\* of the attendee with sorted index (R-1-j)*W + i; every other seat cell is
\* the empty string.
C2_GridLayout ==
    ChartReturned =>
        LET W == seats_per_row
            N == Len(df_sorted)
            R == CeilOf(N, W)
            grid == seating_df.rows
        IN  /\ Len(grid) = R
            /\ \A j \in 0..(R - 1) :
                  /\ Len(grid[j + 1]) = W + 1
                  /\ grid[j + 1][1] = "di" \o num_to_chinese(R - j) \o "pai"
                  /\ \A i \in 0..(W - 1) :
                        LET idx == (R - 1 - j) * W + i
                            cell == grid[j + 1][seating_pattern[i + 1] + 2]
                        IN  IF idx < N THEN cell = df_sorted[idx + 1].NAME
                                       ELSE cell = ""

C2_Witness ==
    /\ ChartReturned
    /\ seats_per_row = 2
    /\ Len(df_sorted) = 3
    /\ Len(seating_df.rows) = 2
    /\ seating_df.rows[1] = <<"dierpai", df_sorted[3].NAME, "">>
    /\ seating_df.rows[2][1] = "diyipai"
    /\ df_sorted[3].NAME # NaN

\* C3: the number of logical rows is ceil(N/W); with N = 0 there are no
\* rows, only the header, an empty placement list and no error; every row
\* but the last has all W seats assigned and the last has N - W*(rows-1),
\* its other seats empty.
C3_RowCount ==
    /\ ChartReturned =>
          LET W == seats_per_row
              N == Len(df_sorted)
              R == CeilOf(N, W)
              Filled(k) == {p \in 1..W : seating_chart[k][p] # ""}
          IN  /\ num_rows = R
              /\ Len(seating_chart) = R
              /\ \A k \in 1..R :
                    /\ Len(seating_chart[k]) = W
                    /\ Cardinality(Filled(k)) =
                          IF k < R THEN W ELSE N - W * (R - 1)
              /\ N = 0 =>
                    /\ seating_df.rows = <<>>
                    /\ Len(seating_df.columns) = W + 1
                    /\ assignments = <<>>
                    /\ explanation_text = ""
    /\ ( /\ seats_per_row >= 1
         /\ uploaded_file.readable
         /\ "PERSONID" \in uploaded_file.columns
         /\ Len(uploaded_file.rows) = 0 ) => pc # "gen_raised"

C3_Witness ==
    /\ ChartReturned
    /\ seats_per_row = 2
    /\ Len(df_sorted) = 3
    /\ num_rows = 2
    /\ seating_chart[2][2] = ""
    /\ seating_chart[2][1] # ""

\* C4: generate_column_labels(W) returns W labels: the first leftSize are
\* the odd integers 2*leftSize-1, ..., 3, 1 in descending order, the other
\* floor(W/2) are the even integers 2, 4, ..., 2*floor(W/2) in ascending
\* order; the values are 1..W, each used once.
C4_ColumnLabels ==
    pc = "seats_done" =>
        LET W == seats_per_row
            leftSize == IF W % 2 = 0 THEN W \div 2 ELSE (W + 1) \div 2
            rightSize == W \div 2
            value == [k \in 1..Len(col_labels) |-> LabelValue(col_labels[k])]
        IN  /\ Len(col_labels) = W
            /\ leftSize + rightSize = W
            /\ value[1] = 2 * leftSize - 1
            /\ value[leftSize] = 1
            /\ \A k \in 1..leftSize : value[k] % 2 = 1
            /\ \A k \in 1..(leftSize - 1) : value[k + 1] = value[k] - 2
            /\ \A k \in (leftSize + 1)..W : value[k] = 2 * (k - leftSize)
            /\ {value[k] : k \in 1..W} = 1..W

C4_Witness ==
    /\ pc = "seats_done"
    /\ seats_per_row = 10
    /\ col_labels = <<"09", "07", "05", "03", "01",
                      "02", "04", "06", "08", "10">>

\* C5 as claimed: for every W >= 1, without an upper bound, every label has
\* exactly two characters.
C5_AlwaysTwoCharacters ==
    pc = "seats_done" =>
        \A k \in 1..Len(col_labels) : Len(col_labels[k]) = 2

\* C5 as amended: every label is the decimal numeral of its seat number,
\* padded with a zero to two characters when the number is below 10; it has
\* exactly two characters when W <= 99, and the labels of the seats numbered
\* 100 and above have three characters or more.
C5_TwoCharactersUpTo99 ==
    pc = "seats_done" =>
        \A k \in 1..Len(col_labels) :
            LET v == LabelValue(col_labels[k])
            IN  /\ v \in 1..seats_per_row
                /\ v < 10 => col_labels[k] = "0" \o ToString(v)
                /\ v >= 10 => col_labels[k] = ToString(v)
                /\ seats_per_row <= 99 => Len(col_labels[k]) = 2
                /\ v >= 100 => Len(col_labels[k]) >= 3

C5_Witness ==
    /\ pc = "seats_done"
    /\ seats_per_row = 99
    /\ col_labels[1] = "99"
    /\ col_labels[50] = "01"

\* C6 as claimed: num_to_chinese(n) with n <= 0 or n >= 100 ends in an
\* error and returns no label.
C6_OutOfRangeRaises ==
    (pc # "numeral_call" /\ (num <= 0 \/ num >= 100)) =>
        pc = "numeral_raised"

\* C7 as claimed: generate_seating_chart with a capacity below 1 ends in an
\* error and returns nothing, whatever the attendee list.
C7_InvalidCapacityRaises ==
    seats_per_row < 1 => pc # "gen_returned"

\* C8: for unique identifiers and W >= 1 the placement list has one entry
\* per attendee and is strictly ascending by identifier.
C8_PlacementOrder ==
    ChartReturned =>
        /\ Len(assignments) = Len(uploaded_file.rows)
        /\ {assignments[k].PERSONID : k \in 1..Len(assignments)}
              = {uploaded_file.rows[k].PERSONID :
                    k \in 1..Len(uploaded_file.rows)}
        /\ \A k \in 1..(Len(assignments) - 1) :
              assignments[k].PERSONID < assignments[k + 1].PERSONID

C8_Witness ==
    /\ ChartReturned
    /\ seats_per_row = 2
    /\ Len(uploaded_file.rows) = 3
    /\ uploaded_file.rows[1].PERSONID = 3
    /\ uploaded_file.rows[3].PERSONID = 1
    /\ assignments[1].PERSONID = 1
    /\ assignments[3].PERSONID = 3
    /\ assignments[3].ROW = "dierpai"

Kinds == {ui[k].kind : k \in 1..Len(ui)}

\* C9: the download and the placement text are offered only after both
\* generate_seating_chart and write_to_excel have completed without an
\* exception; when either raises, exactly one failure message is shown and
\* no download, success message or seating output.
C9_AllOrNothing ==
    /\ Kinds \cap {"success", "download_button", "write", "text"} # {} =>
          /\ pc = "shown"
          /\ exc = ""
          /\ Len(seating_df.columns) = seats_per_row + 1
          /\ excel_data = "seatingmap.xlsx"
          /\ ui[2] = [kind |-> "download_button", body |-> excel_data]
          /\ ui[4] = [kind |-> "text", body |-> explanation_text]
    /\ exc # "" => Kinds \subseteq {"error"}
    /\ pc = "failed" => /\ exc # ""
                        /\ ui = <<[kind |-> "error", body |-> exc]>>
    /\ pc \in {"gen_raised", "write_raised"} => ui = <<>>

C9_Witness ==
    /\ pc = "failed"
    /\ exc = WriteError
    /\ explanation_text # ""
    /\ ui = <<[kind |-> "error", body |-> WriteError]>>

\* C10: for every even W >= 2 and every i in 0..W-1 the column label at
\* physical position compute_seating_pattern(W)[i] is the numeral i+1: the
\* attendees of a row get the labels 01, 02, 03, ... in order, without gaps.
C10_LabelsFollowFillOrder ==
    (pc = "seats_done" /\ seats_per_row % 2 = 0) =>
        \A i \in 0..(seats_per_row - 1) :
            col_labels[seating_pattern[i + 1] + 1] = Format02d(i + 1)

C10_Witness ==
    /\ pc = "seats_done"
    /\ seats_per_row = 10
    /\ col_labels[seating_pattern[1] + 1] = "01"
    /\ col_labels[seating_pattern[10] + 1] = "10"

====
